---- MODULE Spec2Model ----
(***************************************************************************)
(* ShortestForwarding (ryu/app/network_awareness/shortest_forwarding.py):  *)
(* the packet-in handler of the controller application, its ARP            *)
(* forwarding / flooding and its hop-by-hop flow installation, as a state  *)
(* machine.  The tables of the network_awareness application are read by   *)
(* the handlers and never written by them; the REST controller replaces    *)
(* the shortest-path table.  A handler that runs to completion inside the  *)
(* application's event loop is one action, and the messages it hands to    *)
(* Datapath.send_msg are recorded in order.  Where invocations of          *)
(* install_flow run concurrently (SpecConcurrent), every statement of      *)
(* install_flow that reads a table or writes a message is one step.        *)
(***************************************************************************)
EXTENDS Integers, Sequences, FiniteSets, Bags, TLC

(***************************************************************************)
(* Bounds of the model.                                                    *)
(***************************************************************************)
\* Switches 1..NumSwitches, wired as a line 1 - 2 - ... - NumSwitches.
NumSwitches == 4
\* At most this many deviations from the healthy network at the same time:
\* switches missing from self.datapaths plus entries missing from link_to_port.
MaxFaults == 1

(***************************************************************************)
(* Values of the Python program.                                           *)
(***************************************************************************)
\* Python's None where a tuple is expected (a location, a port pair, a result).
None == <<>>
\* Python's None where an integer is expected (a port, a switch id).
NoneInt == -1000
\* Python's None where a payload is expected.
NoData == "None"
\* msg.data of a packet-in: the raw frame.
Payload == "frame"

\* ofproto_v1_3: OFP_NO_BUFFER = 0xffffffff and OFPP_CONTROLLER = 0xfffffffd,
\* written as the 32-bit two's-complement integers.
OFP_NO_BUFFER == -1
OFPP_CONTROLLER == -3
\* The ethertype of an IPv4 frame, 0x0800.
ETH_TYPE_IP == 2048

Switches == 1..NumSwitches
Hosts == {1, 2}
\* The ports of every switch that face hosts.
HostPorts == {1, 2}
\* The port of switch a that faces switch b.
LinkPort(a, b) == 10 + b
Adjacent(a, b) == a - b = 1 \/ b - a = 1
LinkKeys == {k \in Switches \X Switches : Adjacent(k[1], k[2])}
Mac(ip) == 100 + ip

\* A Datapath object: the switch id and the connection it belongs to.
Datapath(id, conn) == [id |-> id, conn |-> conn]
\* The connections a switch opens to the controller, one Datapath object
\* each: switch 1 can be connected twice at a time, the others once.
Conns(id) == IF id = 1 THEN {1, 2} ELSE {1}

(***************************************************************************)
(* The state.                                                              *)
(***************************************************************************)
VARIABLES
    datapaths,       \* self.datapaths: dpid -> Datapath
    access_ports,    \* awareness.access_ports: dpid -> set of ports
    access_table,    \* awareness.access_table, as its items in iteration order
    link_to_port,    \* awareness.link_to_port: (dpid, dpid) -> (port, port)
    shortest_paths,  \* awareness.shortest_paths: dpid -> dpid -> list of paths
    pc,              \* "idle": the event loop waits; "done": a handler ended
    ev,              \* the packet-in event handled last: <<>> or <<[msg, pkt]>>
    calls,           \* the install_flow calls of that handler, as their arguments;
                     \* in SpecConcurrent, the invocations of install_flow
    sent,            \* the messages that handler gave to send_msg, in order;
                     \* in SpecConcurrent, the bag of the messages written
    exc,             \* the exception that handler ended with, or "none"
    live,            \* the Datapath objects in MAIN_DISPATCHER state
    lifecycle        \* history: per dpid, the EventOFPStateChange events so far

vars == <<datapaths, access_ports, access_table, link_to_port, shortest_paths,
          pc, ev, calls, sent, exc, live, lifecycle>>

awareness == <<access_ports, access_table, link_to_port, shortest_paths>>

(***************************************************************************)
(* The application's functions.  A function that can raise returns         *)
(* [msgs, exc]: the messages sent before it returned or raised.            *)
(***************************************************************************)
R(msgs, e) == [msgs |-> msgs, exc |-> e]

\* _state_change_handler that stores the Datapath of every connect.
state_change_handler_replace(dps, datapath, state) ==
    IF state = "MAIN_DISPATCHER"
    THEN [d \in DOMAIN dps \cup {datapath.id} |->
             IF d = datapath.id THEN datapath ELSE dps[d]]
    ELSE IF state = "DEAD_DISPATCHER"
    THEN IF datapath.id \in DOMAIN dps
         THEN [d \in DOMAIN dps \ {datapath.id} |-> dps[d]]
         ELSE dps
    ELSE dps

\* _state_change_handler that unregisters only the Datapath it has stored.
state_change_handler_same_conn(dps, datapath, state) ==
    IF state = "MAIN_DISPATCHER"
    THEN IF datapath.id \notin DOMAIN dps
         THEN [d \in DOMAIN dps \cup {datapath.id} |->
                  IF d = datapath.id THEN datapath ELSE dps[d]]
         ELSE dps
    ELSE IF state = "DEAD_DISPATCHER"
    THEN IF datapath.id \in DOMAIN dps /\ dps[datapath.id] = datapath
         THEN [d \in DOMAIN dps \ {datapath.id} |-> dps[d]]
         ELSE dps
    ELSE dps

\* self.datapaths after _state_change_handler ran on (datapath, state).
state_change_handler(dps, datapath, state) ==
    IF state = "MAIN_DISPATCHER"
    THEN IF datapath.id \notin DOMAIN dps
         THEN [d \in DOMAIN dps \cup {datapath.id} |->
                  IF d = datapath.id THEN datapath ELSE dps[d]]
         ELSE dps
    ELSE IF state = "DEAD_DISPATCHER"
    THEN IF datapath.id \in DOMAIN dps
         THEN [d \in DOMAIN dps \ {datapath.id} |-> dps[d]]
         ELSE dps
    ELSE dps

\* network_awareness.get_host_location: the first access point recorded for ip.
RECURSIVE FirstKeyOf(_, _, _)
FirstKeyOf(tbl, ip, i) ==
    IF i > Len(tbl) THEN None
    ELSE IF tbl[i][2][1] = ip THEN tbl[i][1]
    ELSE FirstKeyOf(tbl, ip, i + 1)

get_host_location(tbl, host_ip) == FirstKeyOf(tbl, host_ip, 1)

Keys(tbl) == {tbl[i][1] : i \in 1..Len(tbl)}

add_flow(dp, p, match, actions, idle_timeout, hard_timeout) ==
    [type |-> "OFPFlowMod", datapath |-> dp, priority |-> p,
     idle_timeout |-> idle_timeout, hard_timeout |-> hard_timeout,
     match |-> match, actions |-> actions]

send_flow_mod(datapath, flow_info, src_port, dst_port) ==
    add_flow(datapath, 1,
             [in_port |-> src_port, eth_type |-> flow_info[1],
              ipv4_src |-> flow_info[2], ipv4_dst |-> flow_info[3]],
             <<dst_port>>, 15, 60)

\* _build_packet_out without the return for an absent buffer and payload.
build_packet_out_always(datapath, buffer_id, src_port, dst_port, data) ==
    LET actions == IF dst_port # NoneInt /\ dst_port # 0 THEN <<dst_port>> ELSE <<>>
    IN  [type |-> "OFPPacketOut", datapath |-> datapath,
         buffer_id |-> buffer_id,
         data |-> IF buffer_id = OFP_NO_BUFFER THEN data ELSE NoData,
         in_port |-> src_port, actions |-> actions]

\* The object _build_packet_out returns; [type |-> "None"] is Python's None.
build_packet_out(datapath, buffer_id, src_port, dst_port, data) ==
    LET actions == IF dst_port # NoneInt /\ dst_port # 0 THEN <<dst_port>> ELSE <<>>
    IN  IF buffer_id = OFP_NO_BUFFER /\ data = NoData
        THEN [type |-> "None"]
        ELSE [type |-> "OFPPacketOut", datapath |-> datapath,
              buffer_id |-> buffer_id,
              data |-> IF buffer_id = OFP_NO_BUFFER THEN data ELSE NoData,
              in_port |-> src_port, actions |-> actions]

\* Datapath.send_msg (ryu/controller/controller.py): it asserts that it is
\* given a message, so Python's None is refused and nothing is written.
send_msg(msg) ==
    IF msg.type = "None" THEN R(<<>>, "AssertionError") ELSE R(<<msg>>, "none")

send_packet_out(datapath, buffer_id, src_port, dst_port, data) ==
    LET out == build_packet_out(datapath, buffer_id, src_port, dst_port, data)
    IN  IF out.type # "None" THEN <<out>> ELSE <<>>

\* The loop of get_port over access_table.keys(), from the i-th key on.
RECURSIVE get_port_from(_, _, _)
get_port_from(dst_ip, tbl, i) ==
    IF i > Len(tbl) THEN NoneInt
    ELSE IF dst_ip = tbl[i][2][1] THEN tbl[i][1][2]
    ELSE get_port_from(dst_ip, tbl, i + 1)

get_port(dst_ip, tbl) ==
    IF Len(tbl) > 0 THEN get_port_from(dst_ip, tbl, 1) ELSE NoneInt

\* get_port_pair_from_link looking the link up in the other direction.
get_port_pair_from_link_reversed(ltp, src_dpid, dst_dpid) ==
    IF <<dst_dpid, src_dpid>> \in DOMAIN ltp
    THEN ltp[<<dst_dpid, src_dpid>>]
    ELSE None

get_port_pair_from_link(ltp, src_dpid, dst_dpid) ==
    IF <<src_dpid, dst_dpid>> \in DOMAIN ltp
    THEN ltp[<<src_dpid, dst_dpid>>]
    ELSE None

\* The functions below take access_ports as aps: the dict's items
\* <<dpid, ports>> in the order the dict iterates, ports being the set of
\* the item in the order the set iterates.
\* The keys of access_ports.
Dpids(aps) == {aps[i][1] : i \in 1..Len(aps)}

\* The (dpid, port) pairs the two nested loops of flood visit: the items of
\* access_ports in the dict's order, the ports of each in its set's order.
RECURSIVE AccessPoints(_)
AccessPoints(aps) ==
    IF aps = <<>> THEN <<>>
    ELSE LET dpid == Head(aps)[1]
             ports == Head(aps)[2]
         IN  [i \in 1..Len(ports) |-> <<dpid, ports[i]>>]
             \o AccessPoints(Tail(aps))

\* The body of flood's loops from the i-th access point on.
RECURSIVE flood_from(_, _, _, _, _, _)
flood_from(msg, dps, tbl, points, i, acc) ==
    IF i > Len(points) THEN R(acc, "none")
    ELSE LET dpid == points[i][1]
             port == points[i][2]
         IN  IF points[i] \in Keys(tbl)
             THEN flood_from(msg, dps, tbl, points, i + 1, acc)
             ELSE IF dpid \notin DOMAIN dps THEN R(acc, "KeyError")
             ELSE LET out == build_packet_out(dps[dpid], OFP_NO_BUFFER,
                                              OFPP_CONTROLLER, port, msg.data)
                      w == send_msg(out)
                  IN  IF w.exc # "none" THEN R(acc, w.exc)
                      ELSE flood_from(msg, dps, tbl, points, i + 1,
                                      acc \o w.msgs)

\* flood without the test for a recorded host: every access port is flooded.
flood_all(msg, dps, aps, tbl) ==
    flood_from(msg, dps, <<>>, AccessPoints(aps), 1, <<>>)

flood(msg, dps, aps, tbl) ==
    flood_from(msg, dps, tbl, AccessPoints(aps), 1, <<>>)

\* arp_forwarding replying through the switch the packet came from.
arp_forwarding_ingress(msg, src_ip, dst_ip, dps, aps, tbl) ==
    LET result == get_host_location(tbl, dst_ip)
    IN  IF result # None
        THEN IF result[1] \notin DOMAIN dps THEN R(<<>>, "KeyError")
             ELSE send_msg(build_packet_out(msg.datapath, OFP_NO_BUFFER,
                                            OFPP_CONTROLLER, result[2], msg.data))
        ELSE flood(msg, dps, aps, tbl)

arp_forwarding(msg, src_ip, dst_ip, dps, aps, tbl) ==
    LET result == get_host_location(tbl, dst_ip)
    IN  IF result # None
        THEN IF result[1] \notin DOMAIN dps THEN R(<<>>, "KeyError")
             ELSE send_msg(build_packet_out(dps[result[1]], OFP_NO_BUFFER,
                                            OFPP_CONTROLLER, result[2], msg.data))
        ELSE flood(msg, dps, aps, tbl)

\* The exception get_path raises, or "none".
get_path_exc(sp, src, dst) ==
    IF src \notin DOMAIN sp THEN "AttributeError"
    ELSE IF dst \notin DOMAIN sp[src] THEN "TypeError"
    ELSE IF Len(sp[src][dst]) = 0 THEN "IndexError"
    ELSE "none"

get_path(sp, src, dst) == sp[src][dst][1]

\* What get_sw did: the exception it raised or "none", and what it returned.
G(e, result) == [exc |-> e, result |-> result]

\* get_sw without the comparison of the ingress port with the source's location.
get_sw_unchecked(dpid, in_port, src, dst, aps, tbl) ==
    LET dst_location == get_host_location(tbl, dst)
    IN  IF dpid \notin Dpids(aps) THEN G("KeyError", None)
        ELSE G("none",
               <<dpid, IF dst_location # None THEN dst_location[1] ELSE NoneInt>>)

\* The result is None, or <<src_sw, dst_sw>> with dst_sw = NoneInt for
\* Python's None; access_ports[dpid] raises KeyError for a dpid without item.
get_sw(dpid, in_port, src, dst, aps, tbl) ==
    LET src_location == get_host_location(tbl, src)
        dst_location == get_host_location(tbl, dst)
    IN  IF dpid \notin Dpids(aps) THEN G("KeyError", None)
        ELSE LET ports == UNION {{aps[i][2][j] : j \in 1..Len(aps[i][2])} :
                                    i \in {k \in 1..Len(aps) : aps[k][1] = dpid}}
             IN  IF in_port \in ports /\ <<dpid, in_port>> # src_location
                 THEN G("none", None)
                 ELSE G("none", <<dpid, IF dst_location # None
                                        THEN dst_location[1] ELSE NoneInt>>)

\* install_inter_link with the loop ending one switch early.
RECURSIVE install_inter_link_short(_, _, _, _, _, _, _)
install_inter_link_short(dps, ltp, path, flow_info, back_info, i, acc) ==
    IF i > Len(path) - 2 THEN R(acc, "none")
    ELSE LET port == get_port_pair_from_link(ltp, path[i - 1], path[i])
             port_next == get_port_pair_from_link(ltp, path[i], path[i + 1])
         IN  IF port # None /\ port_next # None
             THEN IF path[i] \notin DOMAIN dps THEN R(acc, "KeyError")
                  ELSE LET src_port == port[2]
                           dst_port == port_next[1]
                           datapath == dps[path[i]]
                       IN  install_inter_link_short(dps, ltp, path, flow_info, back_info,
                               i + 1,
                               acc \o <<send_flow_mod(datapath, flow_info,
                                                      src_port, dst_port),
                                        send_flow_mod(datapath, back_info,
                                                      dst_port, src_port)>>)
             ELSE install_inter_link_short(dps, ltp, path, flow_info, back_info,
                                     i + 1, acc)

\* install_inter_link taking the far side of both links.
RECURSIVE install_inter_link_swapped(_, _, _, _, _, _, _)
install_inter_link_swapped(dps, ltp, path, flow_info, back_info, i, acc) ==
    IF i > Len(path) - 1 THEN R(acc, "none")
    ELSE LET port == get_port_pair_from_link(ltp, path[i - 1], path[i])
             port_next == get_port_pair_from_link(ltp, path[i], path[i + 1])
         IN  IF port # None /\ port_next # None
             THEN IF path[i] \notin DOMAIN dps THEN R(acc, "KeyError")
                  ELSE LET src_port == port[1]
                           dst_port == port_next[2]
                           datapath == dps[path[i]]
                       IN  install_inter_link_swapped(dps, ltp, path, flow_info, back_info,
                               i + 1,
                               acc \o <<send_flow_mod(datapath, flow_info,
                                                      src_port, dst_port),
                                        send_flow_mod(datapath, back_info,
                                                      dst_port, src_port)>>)
             ELSE install_inter_link_swapped(dps, ltp, path, flow_info, back_info,
                                     i + 1, acc)

\* install_flow, "inter_link": the loop over the interior switches path[i],
\* from index i on (1-based; Python's range(1, len(path) - 1) is 2..Len - 1).
RECURSIVE install_inter_link(_, _, _, _, _, _, _)
install_inter_link(dps, ltp, path, flow_info, back_info, i, acc) ==
    IF i > Len(path) - 1 THEN R(acc, "none")
    ELSE LET port == get_port_pair_from_link(ltp, path[i - 1], path[i])
             port_next == get_port_pair_from_link(ltp, path[i], path[i + 1])
         IN  IF port # None /\ port_next # None
             THEN IF path[i] \notin DOMAIN dps THEN R(acc, "KeyError")
                  ELSE LET src_port == port[2]
                           dst_port == port_next[1]
                           datapath == dps[path[i]]
                       IN  install_inter_link(dps, ltp, path, flow_info, back_info,
                               i + 1,
                               acc \o <<send_flow_mod(datapath, flow_info,
                                                      src_port, dst_port),
                                        send_flow_mod(datapath, back_info,
                                                      dst_port, src_port)>>)
             ELSE install_inter_link(dps, ltp, path, flow_info, back_info,
                                     i + 1, acc)

\* install_first_last with the ports of the reverse rule on the last switch
\* left in the forward order.
install_first_last_unmirrored(dps, ltp, tbl, path, flow_info, back_info, buffer_id, data, acc) ==
    LET n == Len(path)
        in_port == flow_info[4]
        first_dp == dps[path[1]]
        port_pair == get_port_pair_from_link(ltp, path[n - 1], path[n])
        dst_port == get_port(flow_info[3], tbl)
        first_pair == get_port_pair_from_link(ltp, path[1], path[2])
    IN  IF port_pair = None THEN R(acc, "none")
        ELSE IF dst_port = NoneInt THEN R(acc, "none")
        ELSE IF path[n] \notin DOMAIN dps THEN R(acc, "KeyError")
        ELSE LET src_port == port_pair[2]
                 last_dp == dps[path[n]]
                 last == acc \o <<send_flow_mod(last_dp, flow_info,
                                                src_port, dst_port),
                                  send_flow_mod(last_dp, back_info,
                                                src_port, dst_port)>>
             IN  IF first_pair = None THEN R(last, "none")
                 ELSE LET out_port == first_pair[1]
                      IN  R(last \o <<send_flow_mod(first_dp, flow_info,
                                                    in_port, out_port),
                                      send_flow_mod(first_dp, back_info,
                                                    out_port, in_port)>>
                                 \o send_packet_out(first_dp, buffer_id, in_port,
                                                    out_port, data),
                            "none")

\* install_first_last without the return for an unresolved destination port.
install_first_last_no_port_check(dps, ltp, tbl, path, flow_info, back_info, buffer_id, data, acc) ==
    LET n == Len(path)
        in_port == flow_info[4]
        first_dp == dps[path[1]]
        port_pair == get_port_pair_from_link(ltp, path[n - 1], path[n])
        dst_port == get_port(flow_info[3], tbl)
        first_pair == get_port_pair_from_link(ltp, path[1], path[2])
    IN  IF port_pair = None THEN R(acc, "none")
        ELSE IF path[n] \notin DOMAIN dps THEN R(acc, "KeyError")
        ELSE LET src_port == port_pair[2]
                 last_dp == dps[path[n]]
                 last == acc \o <<send_flow_mod(last_dp, flow_info,
                                                src_port, dst_port),
                                  send_flow_mod(last_dp, back_info,
                                                dst_port, src_port)>>
             IN  IF first_pair = None THEN R(last, "none")
                 ELSE LET out_port == first_pair[1]
                      IN  R(last \o <<send_flow_mod(first_dp, flow_info,
                                                    in_port, out_port),
                                      send_flow_mod(first_dp, back_info,
                                                    out_port, in_port)>>
                                 \o send_packet_out(first_dp, buffer_id, in_port,
                                                    out_port, data),
                            "none")

\* install_first_last sending the packet out before the first switch has its
\* rules.
install_first_last_out_first(dps, ltp, tbl, path, flow_info, back_info, buffer_id, data, acc) ==
    LET n == Len(path)
        in_port == flow_info[4]
        first_dp == dps[path[1]]
        port_pair == get_port_pair_from_link(ltp, path[n - 1], path[n])
        dst_port == get_port(flow_info[3], tbl)
        first_pair == get_port_pair_from_link(ltp, path[1], path[2])
    IN  IF port_pair = None THEN R(acc, "none")
        ELSE IF dst_port = NoneInt THEN R(acc, "none")
        ELSE IF path[n] \notin DOMAIN dps THEN R(acc, "KeyError")
        ELSE LET src_port == port_pair[2]
                 last_dp == dps[path[n]]
                 last == acc \o <<send_flow_mod(last_dp, flow_info,
                                                src_port, dst_port),
                                  send_flow_mod(last_dp, back_info,
                                                dst_port, src_port)>>
             IN  IF first_pair = None THEN R(last, "none")
                 ELSE LET out_port == first_pair[1]
                      IN  R(last \o send_packet_out(first_dp, buffer_id, in_port,
                                                    out_port, data)
                                 \o <<send_flow_mod(first_dp, flow_info,
                                                    in_port, out_port),
                                      send_flow_mod(first_dp, back_info,
                                                    out_port, in_port)>>,
                            "none")

\* install_flow, len(path) > 1: the last switch, then the first switch and the
\* packet-out.
install_first_last(dps, ltp, tbl, path, flow_info, back_info, buffer_id, data, acc) ==
    LET n == Len(path)
        in_port == flow_info[4]
        first_dp == dps[path[1]]
        port_pair == get_port_pair_from_link(ltp, path[n - 1], path[n])
        dst_port == get_port(flow_info[3], tbl)
        first_pair == get_port_pair_from_link(ltp, path[1], path[2])
    IN  IF port_pair = None THEN R(acc, "none")
        ELSE IF dst_port = NoneInt THEN R(acc, "none")
        ELSE IF path[n] \notin DOMAIN dps THEN R(acc, "KeyError")
        ELSE LET src_port == port_pair[2]
                 last_dp == dps[path[n]]
                 last == acc \o <<send_flow_mod(last_dp, flow_info,
                                                src_port, dst_port),
                                  send_flow_mod(last_dp, back_info,
                                                dst_port, src_port)>>
             IN  IF first_pair = None THEN R(last, "none")
                 ELSE LET out_port == first_pair[1]
                      IN  R(last \o <<send_flow_mod(first_dp, flow_info,
                                                    in_port, out_port),
                                      send_flow_mod(first_dp, back_info,
                                                    out_port, in_port)>>
                                 \o send_packet_out(first_dp, buffer_id, in_port,
                                                    out_port, data),
                            "none")

\* install_same_dp sending the packet back out of its ingress port.
install_same_dp_wrong_port(dps, tbl, path, flow_info, back_info, buffer_id, data) ==
    LET in_port == flow_info[4]
        first_dp == dps[path[1]]
        out_port == get_port(flow_info[3], tbl)
    IN  IF out_port = NoneInt THEN R(<<>>, "none")
        ELSE R(<<send_flow_mod(first_dp, flow_info, in_port, out_port),
                 send_flow_mod(first_dp, back_info, out_port, in_port)>>
               \o send_packet_out(first_dp, buffer_id, in_port, in_port, data),
               "none")

\* install_flow, "src and dst on the same datapath".
install_same_dp(dps, tbl, path, flow_info, back_info, buffer_id, data) ==
    LET in_port == flow_info[4]
        first_dp == dps[path[1]]
        out_port == get_port(flow_info[3], tbl)
    IN  IF out_port = NoneInt THEN R(<<>>, "none")
        ELSE R(<<send_flow_mod(first_dp, flow_info, in_port, out_port),
                 send_flow_mod(first_dp, back_info, out_port, in_port)>>
               \o send_packet_out(first_dp, buffer_id, in_port, out_port, data),
               "none")

install_flow(dps, ltp, tbl, path, flow_info, buffer_id, data) ==
    IF Len(path) = 0 THEN R(<<>>, "none")
    ELSE IF path[1] \notin DOMAIN dps THEN R(<<>>, "KeyError")
    ELSE LET back_info == <<flow_info[1], flow_info[3], flow_info[2]>>
             inter == IF Len(path) > 2
                      THEN install_inter_link(dps, ltp, path, flow_info,
                                              back_info, 2, <<>>)
                      ELSE R(<<>>, "none")
         IN  IF inter.exc # "none" THEN inter
             ELSE IF Len(path) > 1
             THEN install_first_last(dps, ltp, tbl, path, flow_info, back_info,
                                     buffer_id, data, inter.msgs)
             ELSE install_same_dp(dps, tbl, path, flow_info, back_info,
                                  buffer_id, data)

\* What a handler did: the messages sent, the exception, the install_flow calls.
H(msgs, e, cs) == [msgs |-> msgs, exc |-> e, calls |-> cs]

shortest_forwarding(msg, eth_type, ip_src, ip_dst, dps, aps, tbl, ltp, sp) ==
    LET dpid == msg.datapath.id
        in_port == msg.in_port
        sw == get_sw(dpid, in_port, ip_src, ip_dst, aps, tbl)
    IN  IF sw.exc # "none" THEN H(<<>>, sw.exc, <<>>)
        ELSE LET result == sw.result
             IN  IF result = None THEN H(<<>>, "none", <<>>)
                 ELSE IF result[2] = NoneInt \/ result[2] = 0
                 THEN H(<<>>, "none", <<>>)
                 ELSE IF get_path_exc(sp, result[1], result[2]) # "none"
                 THEN H(<<>>, get_path_exc(sp, result[1], result[2]), <<>>)
                 ELSE LET path == get_path(sp, result[1], result[2])
                          flow_info == <<eth_type, ip_src, ip_dst, in_port>>
                          r == install_flow(dps, ltp, tbl, path, flow_info,
                                            msg.buffer_id, msg.data)
                      IN  H(r.msgs, r.exc,
                            <<[path |-> path, flow_info |-> flow_info,
                               buffer_id |-> msg.buffer_id, data |-> msg.data]>>)

\* _packet_in_handler without the test for an IPv4 header.
packet_in_handler_untyped(msg, pkt, dps, aps, tbl, ltp, sp) ==
    LET a == IF "arp" \in pkt.protocols
             THEN arp_forwarding(msg, pkt.src_ip, pkt.dst_ip, dps, aps, tbl)
             ELSE R(<<>>, "none")
    IN  IF a.exc # "none" THEN H(a.msgs, a.exc, <<>>)
        ELSE IF "ethernet" \in pkt.protocols
        THEN LET f == shortest_forwarding(msg, pkt.ethertype, pkt.src_ip,
                                          pkt.dst_ip, dps, aps, tbl, ltp, sp)
             IN  H(a.msgs \o f.msgs, f.exc, f.calls)
        ELSE H(a.msgs, "none", <<>>)

\* pkt: the protocols the decoder found, the ethertype and the addresses of
\* the ARP or IPv4 header.
packet_in_handler(msg, pkt, dps, aps, tbl, ltp, sp) ==
    LET a == IF "arp" \in pkt.protocols
             THEN arp_forwarding(msg, pkt.src_ip, pkt.dst_ip, dps, aps, tbl)
             ELSE R(<<>>, "none")
    IN  IF a.exc # "none" THEN H(a.msgs, a.exc, <<>>)
        ELSE IF "ipv4" \in pkt.protocols /\ "ethernet" \in pkt.protocols
        THEN LET f == shortest_forwarding(msg, pkt.ethertype, pkt.src_ip,
                                          pkt.dst_ip, dps, aps, tbl, ltp, sp)
             IN  H(a.msgs \o f.msgs, f.exc, f.calls)
        ELSE H(a.msgs, "none", <<>>)

\* int(k) of the object hook of set_shortest_paths, for a key k that is the
\* decimal numeral of a switch id.
IntOf(k) == CHOOSE n \in -9..9 : ToString(n) = k

\* The table ShortestController.set_shortest_paths hands to
\* awareness.set_shortest_paths, which stores it: the JSON object of the
\* request body with the keys of the table and of its rows turned into
\* integers.
set_shortest_paths(body) ==
    [a \in {IntOf(k) : k \in DOMAIN body} |->
        LET row == body[CHOOSE k \in DOMAIN body : IntOf(k) = a]
        IN  [b \in {IntOf(k) : k \in DOMAIN row} |->
                row[CHOOSE k \in DOMAIN row : IntOf(k) = b]]]

(***************************************************************************)
(* The network the handlers run in.                                        *)
(***************************************************************************)
\* The elements of a set of integers in ascending order.
RECURSIVE Ascending(_)
Ascending(S) ==
    IF S = {} THEN <<>>
    ELSE LET m == CHOOSE x \in S : \A y \in S : x <= y
         IN  <<m>> \o Ascending(S \ {m})

\* The sequences that list every element of S once.
RECURSIVE Perms(_)
Perms(S) ==
    IF S = {} THEN {<<>>}
    ELSE UNION {{<<x>> \o p : p \in Perms(S \ {x})} : x \in S}

\* The switches whose place among the keys of access_ports and whose order
\* of ports vary; switches with other ids are inserted after them, in
\* ascending order, with their ports in ascending order.
Shuffled == 0..4

\* The orders in which the keys of access_ports can have been inserted, for
\* the networks with the switches 1..NumSwitches and 0..NumSwitches.
InsertionOrders ==
    [S \in {1..NumSwitches, 0..NumSwitches} |->
        {p \o Ascending(S \ Shuffled) : p \in Perms(S \cap Shuffled)}]

\* The orders in which the set of ports of switch dpid can iterate: a Python
\* set iterates in the order of its slots, which follows from the order in
\* which its elements were added and removed, so any order can occur.
PortOrders(ap, dpid) ==
    IF dpid \in Shuffled THEN Perms(ap[dpid]) ELSE {Ascending(ap[dpid])}

\* The dict ap as its items in the key order dpids, each set in one of its
\* orders.
RECURSIVE Items(_, _)
Items(ap, dpids) ==
    IF dpids = <<>> THEN {<<>>}
    ELSE {<< <<Head(dpids), ports>> >> \o rest :
             ports \in PortOrders(ap, Head(dpids)),
             rest \in Items(ap, Tail(dpids))}

\* The dict ap as a loop over it can find it: its keys in an insertion
\* order the awareness application left, its sets in any order.
IterationOrders(ap) ==
    UNION {Items(ap, dpids) : dpids \in InsertionOrders[DOMAIN ap]}

\* The dict ap as a lookup by key and a membership test find it, which is
\* the same in any order.
Lookup(ap) ==
    LET dpids == Ascending(DOMAIN ap)
    IN  [i \in 1..Len(dpids) |-> <<dpids[i], Ascending(ap[dpids[i]])>>]

\* The switches from a to b along the line.
LinePath(a, b) ==
    IF a <= b THEN [i \in 1..(b - a + 1) |-> a + i - 1]
    ELSE [i \in 1..(a - b + 1) |-> a - i + 1]

\* The table network_awareness computes: one shortest path per pair.
AllPaths == [a \in Switches |-> [b \in Switches |-> <<LinePath(a, b)>>]]

\* A table that sends every flow from its first switch straight to its last.
DirectPaths(S) ==
    [a \in S |-> [b \in S |-> <<IF a = b THEN <<a>> ELSE <<a, b>> >>]]

\* The JSON object that json.dumps writes for a table: the keys as numerals.
JsonBody(sp) ==
    [k \in {ToString(a) : a \in DOMAIN sp} |->
        [j \in {ToString(b) : b \in DOMAIN sp[IntOf(k)]} |->
            sp[IntOf(k)][IntOf(j)]]]

\* The request bodies posted to /v1.0/topology/shortest_path: the table of
\* line paths and the table of direct paths over the switches S.
PostedBodies(S) ==
    {JsonBody([a \in S |-> [b \in S |-> <<LinePath(a, b)>>]]),
     JsonBody(DirectPaths(S))}

LinkTable(keys) ==
    [k \in keys |-> <<LinkPort(k[1], k[2]), LinkPort(k[2], k[1])>>]

Registry(ids) == [d \in ids |-> Datapath(d, 1)]

HostLocations == Switches \X HostPorts

\* One item of the access table: {(sw, port): (ip, mac)}.
Entry(loc, ip) == <<loc, <<ip, Mac(ip)>> >>

\* The access table that records host h at loc[h] (None: not learned yet).
RECURSIVE TableOf(_, _)
TableOf(loc, hs) ==
    IF hs = <<>> THEN <<>>
    ELSE (IF loc[Head(hs)] = None THEN <<>>
          ELSE << <<loc[Head(hs)], <<Head(hs), Mac(Head(hs))>> >> >>)
         \o TableOf(loc, Tail(hs))

\* Host h, once learned, is attached to port h of some switch.
AccessTables ==
    {TableOf(loc, Ascending(Hosts)) :
        loc \in {l \in [Hosts -> HostLocations \cup {None}] :
                    \A h \in Hosts : l[h] # None => l[h][2] = h}}

\* The packet-in messages of the connection dp, which is in MAIN_DISPATCHER
\* state: any port of its switch, buffered or not.
PacketIns(dp) ==
    {[datapath |-> dp, in_port |-> p, buffer_id |-> b, data |-> Payload] :
        b \in {OFP_NO_BUFFER, 7},
        p \in HostPorts \cup {LinkPort(dp.id, n) :
                                 n \in {m \in Switches : Adjacent(dp.id, m)}}}

Packets ==
    {[protocols |-> {"ethernet", "arp"}, ethertype |-> 2054,
      src_ip |-> 1, dst_ip |-> h] : h \in Hosts}
    \cup {[protocols |-> {"ethernet", "ipv4"}, ethertype |-> ETH_TYPE_IP,
           src_ip |-> 1, dst_ip |-> h] : h \in Hosts}
    \cup {[protocols |-> {"ethernet"}, ethertype |-> 34525,
           src_ip |-> 1, dst_ip |-> 2]}

\* What lifecycle records of one switch: the kind of its last event, the
\* connection of its first connect since its last disconnect, and the
\* connection of its latest connect since then.
NoEvents == [last |-> "none", first |-> NoneInt, latest |-> NoneInt]
Connected(l, c) ==
    [last |-> "connect", first |-> IF l.last = "connect" THEN l.first ELSE c,
     latest |-> c]
Disconnected == [last |-> "disconnect", first |-> NoneInt, latest |-> NoneInt]

\* The application after the switches connected.  A switch in down is not
\* in self.datapaths: its first connection was closed while its second one
\* stays in MAIN_DISPATCHER state and still delivers packet-ins.
Init ==
    /\ \E down \in SUBSET Switches, missing \in SUBSET LinkKeys :
          /\ Cardinality(down) + Cardinality(missing) <= MaxFaults
          /\ datapaths = Registry(Switches \ down)
          /\ lifecycle = [d \in Switches |->
                              IF d \in down THEN Disconnected
                              ELSE Connected(NoEvents, 1)]
          /\ live = {Datapath(d, 1) : d \in Switches \ down}
                    \cup {Datapath(d, 2) : d \in down}
          /\ link_to_port = LinkTable(LinkKeys \ missing)
    /\ access_ports = [d \in Switches |-> HostPorts]
    /\ access_table \in AccessTables
    /\ shortest_paths = AllPaths
    /\ pc = "idle"
    /\ ev = <<>>
    /\ calls = <<>>
    /\ sent = <<>>
    /\ exc = "none"

\* The ways a handler of an ARP packet for dst_ip can find access_ports:
\* flood, which runs when dst_ip has no access-table entry, is the only loop
\* over the dict and meets it in any iteration order; every other use of
\* the dict is a lookup by key.
AccessPortsFor(arp, dst_ip) ==
    IF arp /\ get_host_location(access_table, dst_ip) = None
    THEN IterationOrders(access_ports)
    ELSE {Lookup(access_ports)}

\* _packet_in_handler runs on one EventOFPPacketIn; the handler is registered
\* for MAIN_DISPATCHER, so the message comes from a connection in that state.
PacketIn ==
    /\ pc = "idle"
    /\ \E dp \in live, pkt \in Packets : \E msg \in PacketIns(dp) :
       \E h \in {packet_in_handler(msg, pkt, datapaths, aps,
                                    access_table, link_to_port, shortest_paths) :
                     aps \in AccessPortsFor("arp" \in pkt.protocols, pkt.dst_ip)} :
              /\ ev' = <<[msg |-> msg, pkt |-> pkt]>>
              /\ sent' = h.msgs
              /\ exc' = h.exc
              /\ calls' = h.calls
    /\ pc' = "done"
    /\ UNCHANGED <<datapaths, awareness, live, lifecycle>>

\* The handler returns: the event loop takes the next event.
Return ==
    /\ pc = "done" /\ exc = "none"
    /\ pc' = "idle"
    /\ ev' = <<>>
    /\ calls' = <<>>
    /\ sent' = <<>>
    /\ exc' = "none"
    /\ UNCHANGED <<datapaths, awareness, live, lifecycle>>

\* The handler raised.  Nothing in the application catches the exception;
\* it leaves the handler to the event loop of the framework, which stays
\* able to take the next event.
Unhandled ==
    /\ pc = "done" /\ exc # "none"
    /\ pc' = "idle"
    /\ ev' = <<>>
    /\ calls' = <<>>
    /\ sent' = <<>>
    /\ exc' = "none"
    /\ UNCHANGED <<datapaths, awareness, live, lifecycle>>

\* The tables set_shortest_paths stores for the bodies posted in the
\* networks with the switches 1..NumSwitches and 0..NumSwitches.
StoredPaths ==
    [S \in {1..NumSwitches, 0..NumSwitches} |->
        {set_shortest_paths(body) : body \in PostedBodies(S)}]

\* ShortestController.set_shortest_paths runs on one POST request.
SetShortestPaths ==
    /\ pc = "idle"
    /\ shortest_paths' \in StoredPaths[DOMAIN access_ports]
    /\ UNCHANGED <<datapaths, access_ports, access_table, link_to_port,
                   pc, ev, calls, sent, exc, live, lifecycle>>

Next == PacketIn \/ Return \/ Unhandled \/ SetShortestPaths

Spec == Init /\ [][Next]_vars

(***************************************************************************)
(* The switch registry under EventOFPStateChange events: the application   *)
(* starts with no switch registered, switches connect (possibly on a       *)
(* second connection) and disconnect, and packet-ins are handled between   *)
(* these events.  Host 1 is recorded at port 1 of switch 1, host 2 is not  *)
(* learned yet.                                                            *)
(***************************************************************************)
InitRegistry ==
    /\ datapaths = Registry({})
    /\ lifecycle = [d \in Switches |-> NoEvents]
    /\ live = {}
    /\ access_ports = [d \in Switches |-> HostPorts]
    /\ access_table = <<Entry(<<1, 1>>, 1)>>
    /\ link_to_port = LinkTable(LinkKeys)
    /\ shortest_paths = AllPaths
    /\ pc = "idle"
    /\ ev = <<>>
    /\ calls = <<>>
    /\ sent = <<>>
    /\ exc = "none"

\* _state_change_handler runs on one EventOFPStateChange: a connection that
\* enters MAIN_DISPATCHER, or one that is closed.
StateChange ==
    /\ pc = "idle"
    /\ \E d \in Switches, state \in {"MAIN_DISPATCHER", "DEAD_DISPATCHER"} :
       \E c \in Conns(d) :
          /\ state = "MAIN_DISPATCHER" => Datapath(d, c) \notin live
          /\ datapaths' = state_change_handler(datapaths, Datapath(d, c), state)
          /\ live' = IF state = "MAIN_DISPATCHER"
                     THEN live \cup {Datapath(d, c)}
                     ELSE live \ {Datapath(d, c)}
          /\ lifecycle' = [lifecycle EXCEPT ![d] =
                               IF state = "MAIN_DISPATCHER"
                               THEN Connected(lifecycle[d], c)
                               ELSE Disconnected]
    /\ UNCHANGED <<awareness, pc, ev, calls, sent, exc>>

NextRegistry ==
    StateChange \/ PacketIn \/ Return \/ Unhandled \/ SetShortestPaths

SpecRegistry == InitRegistry /\ [][NextRegistry]_vars

(***************************************************************************)
(* The packet-in handler on awareness tables that know a switch with       *)
(* datapath id 0 next to switch 1, and on a shortest-path table that lacks *)
(* rows or entries.  Every switch is registered and every link recorded.   *)
(***************************************************************************)
AllSwitches == 0..NumSwitches

\* The rows and the (row, column) entries a shortest-path table can lack.
PathGaps == {<<a>> : a \in AllSwitches} \cup (AllSwitches \X AllSwitches)

\* The subsets of S of at most k elements.
RECURSIVE AtMost(_, _)
AtMost(S, k) ==
    IF k = 0 THEN {{}}
    ELSE AtMost(S, k - 1) \cup {g \cup {x} : g \in AtMost(S, k - 1), x \in S}

\* The full table without the rows and entries in gaps.
PathsWithout(gaps) ==
    [a \in {x \in AllSwitches : <<x>> \notin gaps} |->
        [b \in {y \in AllSwitches : <<a, y>> \notin gaps} |-> <<LinePath(a, b)>>]]

InitTables ==
    /\ datapaths = Registry(AllSwitches)
    /\ lifecycle = [d \in AllSwitches |-> Connected(NoEvents, 1)]
    /\ live = {Datapath(d, 1) : d \in AllSwitches}
    /\ access_ports = [d \in AllSwitches |-> HostPorts]
    /\ link_to_port =
          LinkTable({k \in AllSwitches \X AllSwitches : Adjacent(k[1], k[2])})
    \* Host 2 is learned where the table has gaps: a handler that finds no
    \* entry for the destination never reads the shortest-path table.
    /\ \E gaps \in AtMost(PathGaps, MaxFaults) :
          /\ shortest_paths = PathsWithout(gaps)
          /\ access_table \in
                {<<Entry(<<1, 1>>, 1)>> : g \in {gaps} \cap {{}}}
                \cup {<<Entry(<<1, 1>>, 1), Entry(<<d, 2>>, 2)>> :
                         d \in AllSwitches}
    /\ pc = "idle"
    /\ ev = <<>>
    /\ calls = <<>>
    /\ sent = <<>>
    /\ exc = "none"

SpecTables == InitTables /\ [][Next]_vars

(***************************************************************************)
(* install_flow and arp_forwarding applied to their arguments: the         *)
(* application's tables, the paths of the shortest-path table (which a      *)
(* POST request replaces), a payload that may be None (install_flow's      *)
(* default), and an access table that may record the destination at no, at *)
(* one or at two access points.                                            *)
(***************************************************************************)
\* The access tables that record host 2 only: nowhere, at one access point,
\* or at port 1 of one switch and then at port 2 of another.
CallTables ==
    {<<>>}
    \cup {<<Entry(l, 2)>> : l \in HostLocations}
    \cup {<<Entry(l[1], 2), Entry(l[2], 2)>> :
             l \in {m \in HostLocations \X HostLocations :
                        m[1][1] # m[2][1] /\ m[1][2] = 1 /\ m[2][2] = 2}}

BufferIds == {OFP_NO_BUFFER, 7}
Datas == {Payload, NoData}

InitCalls ==
    /\ \E down \in SUBSET Switches, missing \in SUBSET LinkKeys :
          /\ Cardinality(down) + Cardinality(missing) <= MaxFaults
          /\ datapaths = Registry(Switches \ down)
          /\ lifecycle = [d \in Switches |->
                              IF d \in down THEN Disconnected
                              ELSE Connected(NoEvents, 1)]
          /\ live = {Datapath(d, 1) : d \in Switches \ down}
                    \cup {Datapath(d, 2) : d \in down}
          /\ link_to_port = LinkTable(LinkKeys \ missing)
    /\ access_ports = [d \in Switches |-> HostPorts]
    /\ access_table \in CallTables
    /\ shortest_paths = AllPaths
    /\ pc = "idle"
    /\ ev = <<>>
    /\ calls = <<>>
    /\ sent = <<>>
    /\ exc = "none"

\* One install_flow call, recorded with the messages it submitted.
Call(path, flow_info, buffer_id, data, r) ==
    [path |-> path, flow_info |-> flow_info, buffer_id |-> buffer_id,
     data |-> data, msgs |-> r.msgs]

\* install_flow runs on the application's tables.
InstallFlow ==
    /\ pc = "idle"
    /\ \E a \in DOMAIN shortest_paths, buffer_id \in BufferIds, data \in Datas :
       \E b \in {c \in DOMAIN shortest_paths[a] : shortest_paths[a][c] # <<>>} :
          LET path == get_path(shortest_paths, a, b)
              flow_info == <<ETH_TYPE_IP, 1, 2, 1>>
          IN  \E r \in {install_flow(datapaths, link_to_port, access_table, path,
                                     flow_info, buffer_id, data)} :
              /\ calls' = <<Call(path, flow_info, buffer_id, data, r)>>
              /\ sent' = r.msgs
              /\ exc' = r.exc
    /\ ev' = <<>>
    /\ pc' = "done"
    /\ UNCHANGED <<datapaths, awareness, live, lifecycle>>

\* install_flow runs again for the same flow and path (the flow's next
\* packet-in), with that packet's buffer and payload.
InstallAgain ==
    /\ pc = "done" /\ ev = <<>> /\ Len(calls) = 1
    /\ \E buffer_id \in BufferIds, data \in Datas :
          LET path == calls[1].path
              flow_info == calls[1].flow_info
          IN  \E r \in {install_flow(datapaths, link_to_port, access_table, path,
                                     flow_info, buffer_id, data)} :
              /\ calls' = Append(calls, Call(path, flow_info, buffer_id, data, r))
              /\ sent' = sent \o r.msgs
              /\ exc' = r.exc
    /\ UNCHANGED <<datapaths, awareness, live, lifecycle, ev, pc>>

\* arp_forwarding runs for host 2 on a message whose payload may be None.
ArpForwarding ==
    /\ pc = "idle"
    /\ \E dp \in live, data \in Datas :
          LET msg == [datapath |-> dp, in_port |-> 1,
                      buffer_id |-> OFP_NO_BUFFER, data |-> data]
          IN  \E r \in {arp_forwarding(msg, 1, 2, datapaths, aps, access_table) :
                            aps \in AccessPortsFor(TRUE, 2)} :
              /\ ev' = <<[msg |-> msg,
                          pkt |-> [protocols |-> {"ethernet", "arp"},
                                   ethertype |-> 2054, src_ip |-> 1,
                                   dst_ip |-> 2]]>>
              /\ sent' = r.msgs
              /\ exc' = r.exc
    /\ calls' = <<>>
    /\ pc' = "done"
    /\ UNCHANGED <<datapaths, awareness, live, lifecycle>>

NextCalls ==
    \/ InstallFlow \/ InstallAgain \/ ArpForwarding
    \/ Return \/ Unhandled \/ SetShortestPaths

SpecCalls == InitCalls /\ [][NextCalls]_vars

(***************************************************************************)
(* install_flow statement by statement, for invocations that run           *)
(* concurrently.  An invocation c holds the arguments and the local        *)
(* variables of one call, the statement it is at, the messages it has      *)
(* given to send_msg and the exception it raised; one step runs from that  *)
(* statement up to and including the next send_msg.  Here calls holds the  *)
(* invocations and sent the bag of the messages written to the switches,   *)
(* the order of the writes of one invocation being that of its messages.   *)
(* The application starts with host 1 recorded at port 1 of switch 1 and   *)
(* host 2 at port 2 of the last switch; the packet-ins of the flow from    *)
(* host 1 to host 2 come from switch 1, and switches disconnect while the  *)
(* invocations run.                                                        *)
(***************************************************************************)
\* ofproto_v1_3: OFPP_LOCAL = 0xfffffffe, as a 32-bit two's-complement integer.
OFPP_LOCAL == -2
\* A local variable that holds no Datapath yet.
NoDatapath == Datapath(NoneInt, NoneInt)

\* The invocation install_flow(dps, ..., path, flow_info, buffer_id, data)
\* before its first statement.  History: seen is self.datapaths at the
\* call; amid tells that the invocation wrote a message while another one
\* had written some of its messages and not ended.
Invocation(path, flow_info, buffer_id, data, dps) ==
    [path |-> path, flow_info |-> flow_info, buffer_id |-> buffer_id,
     data |-> data, at |-> "start", msgs |-> <<>>, exc |-> "none",
     i |-> NoneInt, first_dp |-> NoDatapath, datapath |-> NoDatapath,
     last_dp |-> NoDatapath, src_port |-> NoneInt, dst_port |-> NoneInt,
     out_port |-> NoneInt, seen |-> dps, amid |-> FALSE]

back_info(c) == <<c.flow_info[1], c.flow_info[3], c.flow_info[2]>>

\* The invocation goes on at the statement at, returns, or raises e.
Goto(c, at) == [c EXCEPT !.at = at]
Raise(c, e) == [c EXCEPT !.at = "raised", !.exc = e]
\* The invocation hands m to send_msg and goes on at the statement at.
Submit(c, m, at) == [c EXCEPT !.msgs = Append(@, m), !.at = at]

\* install_flow up to its first branch.
install_flow_start(c, dps) ==
    IF Len(c.path) = 0 THEN Goto(c, "returned")
    ELSE IF c.path[1] \notin DOMAIN dps THEN Raise(c, "KeyError")
    ELSE [c EXCEPT !.first_dp = dps[c.path[1]],
                   !.out_port = OFPP_LOCAL,
                   !.i = 2,
                   !.at = IF Len(c.path) > 2 THEN "inter_link"
                          ELSE IF Len(c.path) > 1 THEN "last"
                          ELSE "same"]

\* "inter_link": the head of the loop and its body up to the forward rule of
\* the interior switch path[i] (1-based).
inter_link(c, dps, ltp) ==
    IF c.i > Len(c.path) - 1 THEN Goto(c, "last")
    ELSE LET port == get_port_pair_from_link(ltp, c.path[c.i - 1], c.path[c.i])
             port_next == get_port_pair_from_link(ltp, c.path[c.i],
                                                  c.path[c.i + 1])
         IN  IF port # None /\ port_next # None
             THEN IF c.path[c.i] \notin DOMAIN dps THEN Raise(c, "KeyError")
                  ELSE Submit([c EXCEPT !.src_port = port[2],
                                        !.dst_port = port_next[1],
                                        !.datapath = dps[c.path[c.i]]],
                              send_flow_mod(dps[c.path[c.i]], c.flow_info,
                                            port[2], port_next[1]),
                              "inter_link_back")
             ELSE [c EXCEPT !.i = @ + 1]

\* The reverse rule of the interior switch; the loop goes on.
inter_link_back(c) ==
    Submit([c EXCEPT !.i = @ + 1],
           send_flow_mod(c.datapath, back_info(c), c.dst_port, c.src_port),
           "inter_link")

\* "the last flow entry": up to the forward rule of the last switch.
last_flow_entry(c, dps, ltp, tbl) ==
    LET n == Len(c.path)
        port_pair == get_port_pair_from_link(ltp, c.path[n - 1], c.path[n])
        dst_port == get_port(c.flow_info[3], tbl)
    IN  IF port_pair = None THEN Goto(c, "returned")
        ELSE IF dst_port = NoneInt THEN Goto(c, "returned")
        ELSE IF c.path[n] \notin DOMAIN dps THEN Raise(c, "KeyError")
        ELSE Submit([c EXCEPT !.src_port = port_pair[2],
                              !.dst_port = dst_port,
                              !.last_dp = dps[c.path[n]]],
                    send_flow_mod(dps[c.path[n]], c.flow_info,
                                  port_pair[2], dst_port),
                    "last_back")

\* The reverse rule of the last switch.
last_flow_entry_back(c) ==
    Submit(c, send_flow_mod(c.last_dp, back_info(c), c.dst_port, c.src_port),
           "first")

\* first_flow_entry releasing a buffered packet with the forward rule (the
\* rule carries the buffer id).
first_flow_entry_buffered(c, ltp) ==
    LET port_pair == get_port_pair_from_link(ltp, c.path[1], c.path[2])
        in_port == c.flow_info[4]
    IN  IF port_pair = None THEN Goto(c, "returned")
        ELSE LET fwd == send_flow_mod(c.first_dp, c.flow_info, in_port,
                                      port_pair[1])
             IN  Submit([c EXCEPT !.out_port = port_pair[1]],
                        IF c.buffer_id # OFP_NO_BUFFER
                        THEN fwd @@ [buffer_id |-> c.buffer_id] ELSE fwd,
                        "first_back")

\* "the first flow entry": up to the forward rule of the first switch.
first_flow_entry(c, ltp) ==
    LET port_pair == get_port_pair_from_link(ltp, c.path[1], c.path[2])
        in_port == c.flow_info[4]
    IN  IF port_pair = None THEN Goto(c, "returned")
        ELSE Submit([c EXCEPT !.out_port = port_pair[1]],
                    send_flow_mod(c.first_dp, c.flow_info, in_port,
                                  port_pair[1]),
                    "first_back")

\* "src and dst on the same datapath": up to the forward rule.
same_datapath(c, tbl) ==
    LET out_port == get_port(c.flow_info[3], tbl)
        in_port == c.flow_info[4]
    IN  IF out_port = NoneInt THEN Goto(c, "returned")
        ELSE Submit([c EXCEPT !.out_port = out_port],
                    send_flow_mod(c.first_dp, c.flow_info, in_port, out_port),
                    "first_back")

\* The reverse rule of the first switch, in either branch.
first_flow_entry_back(c) ==
    Submit(c, send_flow_mod(c.first_dp, back_info(c), c.out_port,
                            c.flow_info[4]),
           "packet_out")

\* The packet-out that ends either branch.
packet_out(c) ==
    [c EXCEPT !.msgs = @ \o send_packet_out(c.first_dp, c.buffer_id,
                                            c.flow_info[4], c.out_port, c.data),
              !.at = "returned"]

Ended(c) == c.at \in {"returned", "raised"}

\* The invocation c after its next step on the tables as they are now.
install_flow_step(c, dps, ltp, tbl) ==
    CASE c.at = "start" -> install_flow_start(c, dps)
      [] c.at = "inter_link" -> inter_link(c, dps, ltp)
      [] c.at = "inter_link_back" -> inter_link_back(c)
      [] c.at = "last" -> last_flow_entry(c, dps, ltp, tbl)
      [] c.at = "last_back" -> last_flow_entry_back(c)
      [] c.at = "first" -> first_flow_entry(c, ltp)
      [] c.at = "same" -> same_datapath(c, tbl)
      [] c.at = "first_back" -> first_flow_entry_back(c)
      [] c.at = "packet_out" -> packet_out(c)

InitConcurrent ==
    /\ datapaths = Registry(Switches)
    /\ lifecycle = [d \in Switches |-> Connected(NoEvents, 1)]
    /\ live = {Datapath(d, 1) : d \in Switches}
    /\ access_ports = [d \in Switches |-> HostPorts]
    /\ access_table = <<Entry(<<1, 1>>, 1), Entry(<<NumSwitches, 2>>, 2)>>
    /\ \E missing \in AtMost(LinkKeys, MaxFaults) :
          link_to_port = LinkTable(LinkKeys \ missing)
    /\ shortest_paths = AllPaths
    /\ pc = "idle"
    /\ ev = <<>>
    /\ calls = <<>>
    /\ sent = EmptyBag
    /\ exc = "none"

\* The switches that left the registry and the link entries that are
\* missing.
Faults ==
    Cardinality(Switches \ DOMAIN datapaths)
        + Cardinality(LinkKeys \ DOMAIN link_to_port)

\* The handler invocations that run at the same time.
Invocations == {1, 2}

\* shortest_forwarding runs on an IPv4 packet-in of the flow from host 1 to
\* host 2 and reaches its call of install_flow, which begins.
Invoke ==
    /\ Len(calls) < Cardinality(Invocations)
    /\ \E dp \in {d \in live : d.id = 1} : \E msg \in PacketIns(dp) :
       \E h \in {shortest_forwarding(msg, ETH_TYPE_IP, 1, 2, datapaths,
                                     Lookup(access_ports), access_table,
                                     link_to_port, shortest_paths)} :
          /\ h.calls # <<>>
          /\ calls' = Append(calls,
                             Invocation(h.calls[1].path, h.calls[1].flow_info,
                                        h.calls[1].buffer_id, h.calls[1].data,
                                        datapaths))
    /\ UNCHANGED <<datapaths, awareness, live, lifecycle, pc, ev, sent, exc>>

\* One invocation runs up to its next send_msg; the message is written.
Step ==
    /\ \E k \in 1..Len(calls) :
          /\ ~Ended(calls[k])
          /\ \E c \in {install_flow_step(calls[k], datapaths, link_to_port,
                                         access_table)} :
                LET new == {c.msgs[i] : i \in (Len(calls[k].msgs) + 1)..Len(c.msgs)}
                    others == {j \in 1..Len(calls) :
                                  /\ j # k
                                  /\ calls[j].msgs # <<>>
                                  /\ ~Ended(calls[j])}
                IN  /\ calls' = [calls EXCEPT ![k] =
                                     [c EXCEPT !.amid =
                                          @ \/ (new # {} /\ others # {})]]
                    /\ sent' = sent (+) SetToBag(new)
    /\ UNCHANGED <<datapaths, awareness, live, lifecycle, pc, ev, exc>>

\* _state_change_handler runs on the EventOFPStateChange of a connection
\* that is closed.
Disconnect ==
    /\ Faults < MaxFaults
    /\ \E dp \in live :
          /\ datapaths' = state_change_handler(datapaths, dp, "DEAD_DISPATCHER")
          /\ live' = live \ {dp}
          /\ lifecycle' = [lifecycle EXCEPT ![dp.id] = Disconnected]
    /\ UNCHANGED <<awareness, pc, ev, calls, sent, exc>>

NextConcurrent == Invoke \/ Step \/ Disconnect \/ SetShortestPaths

SpecConcurrent == InitConcurrent /\ [][NextConcurrent]_vars

(***************************************************************************)
(* What the properties below read from a state.                            *)
(***************************************************************************)
Handled == pc = "done" /\ ev # <<>>
Installing == Handled /\ calls # <<>>
ThePath == calls[1].path
TheFlow == calls[1].flow_info

FlowMods == {i \in 1..Len(sent) : sent[i].type = "OFPFlowMod"}
PacketOuts == {i \in 1..Len(sent) : sent[i].type = "OFPPacketOut"}
RulesOn(d) == {i \in FlowMods : sent[i].datapath.id = d}

\* The access points the access table records for ip.
EntriesOf(ip) ==
    {access_table[j][1] : j \in {k \in 1..Len(access_table) :
                                    access_table[k][2][1] = ip}}
LinksResolve(path) ==
    \A i \in 1..(Len(path) - 1) : <<path[i], path[i + 1]>> \in DOMAIN link_to_port
AllRegistered(path) == \A i \in 1..Len(path) : path[i] \in DOMAIN datapaths

\* The premises of the rule counts: links, destination port and switches.
Resolved ==
    /\ LinksResolve(ThePath)
    /\ EntriesOf(TheFlow[3]) # {}
    /\ AllRegistered(ThePath)

\* Two rules on every switch of the path and one packet-out, on the first.
TwoRulesPerSwitch ==
    /\ \A i \in 1..Len(ThePath) : Cardinality(RulesOn(ThePath[i])) = 2
    /\ Cardinality(PacketOuts) = 1
    /\ \A k \in PacketOuts : sent[k].datapath.id = ThePath[1]

(***************************************************************************)
(* C1 as stated: a resolved path of n > 2 switches gets 2 + 2(n-2) rules   *)
(* in all, 2 on each of its switches, and 1 packet-out on the first.       *)
(***************************************************************************)
C1_RuleTotalAsStated ==
    Installing /\ Len(ThePath) > 2 /\ Resolved
        => /\ Cardinality(FlowMods) = 2 + 2 * (Len(ThePath) - 2)
           /\ TwoRulesPerSwitch

(***************************************************************************)
(* C1, amended: a resolved path of n > 2 switches gets 4 + 2(n-2) rules in *)
(* all (2 on the first switch, 2 on the last, 2 on each interior switch)   *)
(* and exactly 1 packet-out, sent to the first switch.                     *)
(***************************************************************************)
C1_RulesOnLongPath ==
    Installing /\ Len(ThePath) > 2 /\ Resolved
        => /\ Cardinality(FlowMods) = 4 + 2 * (Len(ThePath) - 2)
           /\ TwoRulesPerSwitch

C1_Witness ==
    /\ Installing /\ Len(ThePath) > 3 /\ Resolved
    /\ Cardinality(FlowMods) = 2 * Len(ThePath)
    /\ PacketOuts # {}

\* The k-th hop install_flow handles, as an index into the path.
HopOrder(path, k) ==
    IF k <= Len(path) - 2 THEN k + 1
    ELSE IF k = Len(path) - 1 THEN Len(path)
    ELSE 1

\* The link-port entries hop h looks up.
HopLinks(path, h) ==
    IF h = 1 THEN {<<path[1], path[2]>>}
    ELSE IF h = Len(path) THEN {<<path[h - 1], path[h]>>}
    ELSE {<<path[h - 1], path[h]>>, <<path[h], path[h + 1]>>}

HopFails(path, h) == \E l \in HopLinks(path, h) : l \notin DOMAIN link_to_port

(***************************************************************************)
(* C2 as stated: when a link-port entry that a hop of the path needs is    *)
(* absent, install_flow aborts at that hop: no packet-out is sent and no   *)
(* rule is submitted for that hop or any hop the code handles after it     *)
(* (the interior switches in path order, then the last switch, then the    *)
(* first).                                                                 *)
(***************************************************************************)
C2_AbortAtMissingLink ==
    Installing /\ Len(ThePath) >= 2 /\ ~LinksResolve(ThePath)
        => /\ PacketOuts = {}
           /\ \A k \in 1..Len(ThePath) :
                 (\E j \in 1..k : HopFails(ThePath, HopOrder(ThePath, j)))
                     => RulesOn(ThePath[HopOrder(ThePath, k)]) = {}

AllAccessPoints ==
    UNION {{<<d, p>> : p \in access_ports[d]} : d \in DOMAIN access_ports}
UnknownPoints == AllAccessPoints \ Keys(access_table)
DirectivesTo(u) ==
    {i \in PacketOuts : sent[i].datapath.id = u[1] /\ sent[i].actions = <<u[2]>>}

Flooding ==
    Handled /\ "arp" \in ev[1].pkt.protocols /\ EntriesOf(ev[1].pkt.dst_ip) = {}
Replying ==
    Handled /\ "arp" \in ev[1].pkt.protocols /\ EntriesOf(ev[1].pkt.dst_ip) # {}

(***************************************************************************)
(* C3 as stated: a submission to a switch that is not in self.datapaths is *)
(* dropped silently: the handler does not fail, and in a flood the access  *)
(* ports of the registered switches still get their packet-out.            *)
(***************************************************************************)
C3_UnregisteredDroppedSilently ==
    /\ Handled => exc # "KeyError"
    /\ Flooding => \A u \in UnknownPoints :
                       u[1] \in DOMAIN datapaths => DirectivesTo(u) # {}

FourRulesOnTwoSwitches ==
    /\ Cardinality(FlowMods) = 4
    /\ TwoRulesPerSwitch
    /\ \A k \in PacketOuts :
          sent[k].actions = <<link_to_port[<<ThePath[1], ThePath[2]>>][1]>>

(***************************************************************************)
(* C4 as stated: a path of 2 switches whose link is in link_to_port and    *)
(* whose destination access port resolves gets exactly 4 rules, 2 on each  *)
(* switch, and 1 packet-out on path[0] out of its link-facing port.        *)
(***************************************************************************)
C4_TwoSwitchPathAsStated ==
    Installing /\ Len(ThePath) = 2 /\ LinksResolve(ThePath)
               /\ EntriesOf(TheFlow[3]) # {}
        => FourRulesOnTwoSwitches

(***************************************************************************)
(* C4, amended: a path of 2 switches that are both in self.datapaths,      *)
(* whose link is in link_to_port and whose destination access port         *)
(* resolves, gets exactly 4 rules, 2 on each switch, and 1 packet-out on   *)
(* path[0] out of its link-facing port.                                    *)
(***************************************************************************)
C4_RulesOnTwoSwitchPath ==
    Installing /\ Len(ThePath) = 2 /\ Resolved => FourRulesOnTwoSwitches

C4_Witness ==
    /\ Installing /\ Len(ThePath) = 2 /\ Resolved
    /\ Cardinality(FlowMods) = 4
    /\ \E k \in PacketOuts : sent[k].datapath.id = ThePath[1]

Rule(dp, eth, src, dst, inp, outp) ==
    [type |-> "OFPFlowMod", datapath |-> dp, priority |-> 1,
     idle_timeout |-> 15, hard_timeout |-> 60,
     match |-> [in_port |-> inp, eth_type |-> eth, ipv4_src |-> src,
                ipv4_dst |-> dst],
     actions |-> <<outp>>]

ForwardAndReverseOnOneSwitch ==
    \E e \in EntriesOf(TheFlow[3]) :
        LET dp == datapaths[ThePath[1]]
            inp == TheFlow[4]
            outp == e[2]
        IN  /\ Cardinality(FlowMods) = 2
            /\ \E i \in FlowMods :
                  sent[i] = Rule(dp, TheFlow[1], TheFlow[2], TheFlow[3], inp, outp)
            /\ \E i \in FlowMods :
                  sent[i] = Rule(dp, TheFlow[1], TheFlow[3], TheFlow[2], outp, inp)
            /\ Cardinality(PacketOuts) = 1
            /\ \A k \in PacketOuts : /\ sent[k].datapath = dp
                                      /\ sent[k].actions = <<outp>>

(***************************************************************************)
(* C5 as stated: a path of 1 switch whose destination output port resolves *)
(* gets exactly 2 rules on that switch, forward (ingress port -> output    *)
(* port) and reverse (output port -> ingress port), and 1 packet-out on    *)
(* that switch out of the resolved output port.                            *)
(***************************************************************************)
C5_OneSwitchPathAsStated ==
    Installing /\ Len(ThePath) = 1 /\ EntriesOf(TheFlow[3]) # {}
        => /\ ThePath[1] \in DOMAIN datapaths
           /\ ForwardAndReverseOnOneSwitch

(***************************************************************************)
(* C5, amended: a path of 1 switch that is in self.datapaths and whose     *)
(* destination output port resolves gets exactly 2 rules on that switch,   *)
(* forward (ingress port -> output port) and reverse (output port ->       *)
(* ingress port), and 1 packet-out on that switch out of the output port.  *)
(***************************************************************************)
C5_RulesOnOneSwitchPath ==
    Installing /\ Len(ThePath) = 1 /\ Resolved => ForwardAndReverseOnOneSwitch

C5_Witness ==
    /\ Installing /\ Len(ThePath) = 1 /\ Resolved
    /\ TheFlow[2] # TheFlow[3]
    /\ Cardinality(FlowMods) = 2 /\ Cardinality(PacketOuts) = 1

\* The forward rules: those that match the packet's own addresses.
ForwardRules ==
    {i \in FlowMods : /\ sent[i].match.ipv4_src = TheFlow[2]
                     /\ sent[i].match.ipv4_dst = TheFlow[3]}

\* The ports the claim gives the forward rule of the h-th switch of the path.
ChainIn(h) ==
    IF h = 1 THEN TheFlow[4]
    ELSE link_to_port[<<ThePath[h - 1], ThePath[h]>>][2]
ChainOut(h) ==
    IF h = Len(ThePath) THEN {e[2] : e \in EntriesOf(TheFlow[3])}
    ELSE {link_to_port[<<ThePath[h], ThePath[h + 1]>>][1]}

\* The switches a packet visits that enters switch d on port inp and obeys
\* the forward rules, crossing the link behind each output port.
RECURSIVE Walk(_, _, _)
Walk(d, inp, fuel) ==
    LET rules == {i \in ForwardRules : /\ sent[i].datapath.id = d
                                       /\ sent[i].match.in_port = inp}
    IN  IF fuel = 0 \/ rules = {} THEN <<>>
        ELSE LET outp == sent[CHOOSE i \in rules : TRUE].actions[1]
                 links == {k \in DOMAIN link_to_port :
                              k[1] = d /\ link_to_port[k][1] = outp}
             IN  <<d>> \o (IF links = {} THEN <<>>
                           ELSE LET k == CHOOSE l \in links : TRUE
                                IN  Walk(k[2], link_to_port[k][2], fuel - 1))

ForwardRulesChain ==
    /\ \A i \in ForwardRules :
          \E h \in 1..Len(ThePath) :
              /\ sent[i].datapath.id = ThePath[h]
              /\ sent[i].match.in_port = ChainIn(h)
              /\ \E outp \in ChainOut(h) : sent[i].actions = <<outp>>
    /\ Walk(ThePath[1], TheFlow[4], Len(ThePath) + 1) = ThePath

(***************************************************************************)
(* C6 as stated: with every link of the path in link_to_port (and the      *)
(* destination's access port recorded) the forward rules chain port to     *)
(* port, so that a packet following them from the ingress port visits      *)
(* exactly the switches of the path, in order.                             *)
(***************************************************************************)
C6_ForwardChainAsStated ==
    Installing /\ TheFlow[2] # TheFlow[3] /\ LinksResolve(ThePath)
               /\ EntriesOf(TheFlow[3]) # {}
        => ForwardRulesChain

(***************************************************************************)
(* C6, amended: with every link of the path in link_to_port, the           *)
(* destination's access port recorded and every switch of the path in      *)
(* self.datapaths, the forward rules chain port to port, so that a packet  *)
(* following them from the ingress port visits exactly the switches of the *)
(* path, in order.                                                         *)
(***************************************************************************)
C6_ForwardChain ==
    Installing /\ TheFlow[2] # TheFlow[3] /\ Resolved => ForwardRulesChain

C6_Witness ==
    /\ Installing /\ TheFlow[2] # TheFlow[3] /\ Resolved
    /\ Len(ThePath) > 3
    /\ Cardinality(ForwardRules) = Len(ThePath)

Mirror(m) ==
    [m EXCEPT !.match = [in_port |-> m.actions[1], eth_type |-> m.match.eth_type,
                         ipv4_src |-> m.match.ipv4_dst,
                         ipv4_dst |-> m.match.ipv4_src],
              !.actions = <<m.match.in_port>>]

(***************************************************************************)
(* C7: when a packet-in handler that called install_flow ends, normally or *)
(* aborted, every rule it submitted has its mirror image among the rules   *)
(* submitted: same switch, same ethertype, in-port and output port         *)
(* exchanged, source and destination address exchanged.                    *)
(***************************************************************************)
C7_RulesSymmetric ==
    Handled => \A i \in FlowMods : \E j \in FlowMods : sent[j] = Mirror(sent[i])

C7_Witness ==
    /\ Installing /\ exc = "KeyError" /\ FlowMods # {}
    /\ TheFlow[2] # TheFlow[3]

Mismatch ==
    /\ Handled /\ "ipv4" \in ev[1].pkt.protocols
    /\ ev[1].msg.datapath.id \in DOMAIN access_ports
    /\ ev[1].msg.in_port \in access_ports[ev[1].msg.datapath.id]
    /\ <<ev[1].msg.datapath.id, ev[1].msg.in_port>>
          \notin EntriesOf(ev[1].pkt.src_ip)

(***************************************************************************)
(* C8: an IPv4 packet that arrives on an access port of the ingress switch *)
(* which is not the access point recorded for its source address (or whose *)
(* source address is not recorded at all) makes get_sw return None, and    *)
(* its handling submits no rule and no packet-out.                         *)
(***************************************************************************)
C8_MismatchInstallsNothing ==
    Mismatch => /\ get_sw(ev[1].msg.datapath.id, ev[1].msg.in_port,
                          ev[1].pkt.src_ip, ev[1].pkt.dst_ip,
                          Lookup(access_ports), access_table) = G("none", None)
                /\ sent = <<>>
                /\ calls = <<>>
                /\ exc = "none"

C8_Witness ==
    /\ Mismatch /\ sent = <<>>
    /\ EntriesOf(ev[1].pkt.src_ip) # {}
    /\ EntriesOf(ev[1].pkt.dst_ip) # {}
    /\ ev[1].msg.datapath.id \in DOMAIN datapaths

ForwardOnly(m) ==
    /\ m.type = "OFPPacketOut"
    /\ m.in_port = OFPP_CONTROLLER
    /\ m.buffer_id = OFP_NO_BUFFER
    /\ m.data = ev[1].msg.data

OneDirectivePerUnknownPoint ==
    /\ \A u \in UnknownPoints : /\ Cardinality(DirectivesTo(u)) = 1
                                 /\ u[1] \in DOMAIN datapaths
                                 /\ \A i \in DirectivesTo(u) :
                                       sent[i].datapath = datapaths[u[1]]
    /\ Len(sent) = Cardinality(UnknownPoints)
    /\ \A i \in 1..Len(sent) : ForwardOnly(sent[i])
    /\ calls = <<>>

(***************************************************************************)
(* C9 as stated: an ARP packet for an address without access-table entry   *)
(* causes exactly one packet-out per access port that has no entry, sent   *)
(* to that port's switch with that output port, none to an access port     *)
(* that has an entry, and no rule.                                         *)
(***************************************************************************)
C9_FloodAsStated == Flooding => OneDirectivePerUnknownPoint

(***************************************************************************)
(* C9, amended: when the switch of every access port without entry is in   *)
(* self.datapaths, an ARP packet for an address without access-table entry *)
(* causes exactly one packet-out per access port that has no entry, sent   *)
(* to that port's switch with that output port, none to an access port     *)
(* that has an entry, and no rule.                                         *)
(***************************************************************************)
C9_FloodOnUnknown ==
    Flooding /\ (\A u \in UnknownPoints : u[1] \in DOMAIN datapaths)
        => OneDirectivePerUnknownPoint

C9_Witness ==
    /\ Flooding /\ \A u \in UnknownPoints : u[1] \in DOMAIN datapaths
    /\ Keys(access_table) # {}
    /\ Len(sent) = Cardinality(AllAccessPoints) - 1

OneDirectiveToTheHost ==
    /\ Len(sent) = 1
    /\ ForwardOnly(sent[1])
    /\ \E e \in EntriesOf(ev[1].pkt.dst_ip) :
          /\ e[1] \in DOMAIN datapaths
          /\ sent[1].datapath = datapaths[e[1]]
          /\ sent[1].actions = <<e[2]>>
    /\ calls = <<>>

(***************************************************************************)
(* C10 as stated: an ARP packet for an address recorded at (s, p) causes   *)
(* exactly one packet-out, to switch s with output port p, no flooding and *)
(* no rule, whatever switch the packet came from.                          *)
(***************************************************************************)
C10_ReplyAsStated == Replying => OneDirectiveToTheHost

(***************************************************************************)
(* C10, amended: an ARP packet for an address recorded at (s, p), with s   *)
(* in self.datapaths, causes exactly one packet-out, to switch s with      *)
(* output port p, no flooding and no rule, whatever switch the packet came *)
(* from.                                                                   *)
(***************************************************************************)
C10_ResolveAndReply ==
    Replying /\ (\A e \in EntriesOf(ev[1].pkt.dst_ip) : e[1] \in DOMAIN datapaths)
        => OneDirectiveToTheHost

C10_Witness ==
    /\ Replying /\ Len(sent) = 1
    /\ sent[1].datapath.id # ev[1].msg.datapath.id
    /\ Cardinality(UnknownPoints) > 1

(***************************************************************************)
(* C17: after any sequence of connect (MAIN_DISPATCHER) and disconnect     *)
(* (DEAD_DISPATCHER) events, a switch id is in self.datapaths if and only  *)
(* if the last such event for that id was a connect; and an event changes  *)
(* the registration of no switch but its own.                              *)
(***************************************************************************)
C17_RegisteredIffLastConnect ==
    [][/\ \A d \in Switches :
             d \in DOMAIN datapaths' <=> lifecycle'[d].last = "connect"
       /\ \A d \in Switches :
             lifecycle'[d] = lifecycle[d]
                 => /\ d \in DOMAIN datapaths' <=> d \in DOMAIN datapaths
                    /\ d \in DOMAIN datapaths => datapaths'[d] = datapaths[d]]_vars

C17_Witness ==
    /\ \E d \in Switches : /\ lifecycle[d].last = "disconnect"
                            /\ d \notin DOMAIN datapaths
    /\ \E d \in Switches : /\ lifecycle[d].last = "connect"
                            /\ lifecycle[d].first # lifecycle[d].latest
                            /\ d \in DOMAIN datapaths

(***************************************************************************)
(* C20: a connect event for a switch id that is already registered does    *)
(* not replace the stored Datapath: until a disconnect event for that id,  *)
(* self.datapaths[id] is the Datapath of the first connect, and the rules  *)
(* and packet-outs for that switch are sent with that Datapath.            *)
(***************************************************************************)
C20_FirstHandleKept ==
    /\ \A d \in Switches :
          lifecycle[d].last = "connect"
              => /\ d \in DOMAIN datapaths
                 /\ datapaths[d] = Datapath(d, lifecycle[d].first)
    /\ \A i \in 1..Len(sent) :
          sent[i].datapath = Datapath(sent[i].datapath.id,
                                      lifecycle[sent[i].datapath.id].first)

C20_Witness ==
    /\ Handled
    /\ \E i \in FlowMods : \E k \in PacketOuts :
          /\ lifecycle[sent[i].datapath.id].latest # sent[i].datapath.conn
          /\ lifecycle[sent[k].datapath.id].latest # sent[k].datapath.conn

(***************************************************************************)
(* C16: a packet-in whose packet has neither an ARP header nor an IPv4     *)
(* header together with an Ethernet header is dropped silently: no rule,   *)
(* no packet-out, no exception; and an ARP packet only goes to ARP         *)
(* forwarding / flooding: it causes forward-only packet-outs and never an  *)
(* install_flow call or a rule.                                            *)
(***************************************************************************)
C16_TriageDrops ==
    Handled =>
        /\ ("arp" \notin ev[1].pkt.protocols
              /\ ~("ipv4" \in ev[1].pkt.protocols
                      /\ "ethernet" \in ev[1].pkt.protocols))
               => sent = <<>> /\ calls = <<>> /\ exc = "none"
        /\ "arp" \in ev[1].pkt.protocols
               => /\ calls = <<>>
                  /\ \A i \in 1..Len(sent) : ForwardOnly(sent[i])

C16_Witness ==
    /\ Handled /\ sent = <<>> /\ exc = "none"
    /\ ev[1].pkt.protocols = {"ethernet"}
    /\ EntriesOf(ev[1].pkt.src_ip) = {<<ev[1].msg.datapath.id, ev[1].msg.in_port>>}
    /\ EntriesOf(ev[1].pkt.dst_ip) # {}
    /\ AllRegistered(LinePath(1, NumSwitches))
    /\ LinksResolve(LinePath(1, NumSwitches))

(***************************************************************************)
(* What the properties of single install_flow calls read from a state.     *)
(***************************************************************************)
Called == {c \in 1..Len(calls) : "msgs" \in DOMAIN calls[c]}
RulesOf(c) == {i \in 1..Len(calls[c].msgs) : calls[c].msgs[i].type = "OFPFlowMod"}
OutsOf(c) ==
    {i \in 1..Len(calls[c].msgs) : calls[c].msgs[i].type = "OFPPacketOut"}
RulesOfOn(c, d) == {i \in RulesOf(c) : calls[c].msgs[i].datapath.id = d}
LastOf(c) == calls[c].path[Len(calls[c].path)]
DstOf(c) == calls[c].flow_info[3]
\* The rules a call submitted, in order.
RuleSeq(c) == SelectSeq(calls[c].msgs, LAMBDA m : m.type = "OFPFlowMod")

(***************************************************************************)
(* C11: when the access table has no entry for the destination address,    *)
(* an install_flow call sends no packet-out; for a path of 1 switch it     *)
(* submits nothing at all, and for a path of 2 or more switches it submits *)
(* no rule to the first and none to the last switch.                       *)
(***************************************************************************)
C11_NoPortNoDelivery ==
    \A c \in Called :
        EntriesOf(DstOf(c)) = {}
            => /\ OutsOf(c) = {}
               /\ Len(calls[c].path) = 1 => calls[c].msgs = <<>>
               /\ Len(calls[c].path) >= 2
                     => /\ RulesOfOn(c, calls[c].path[1]) = {}
                        /\ RulesOfOn(c, LastOf(c)) = {}

C11_Witness ==
    /\ pc = "done" /\ Len(calls) = 1 /\ Called = {1}
    /\ EntriesOf(DstOf(1)) = {}
    /\ Len(calls[1].path) > 3
    /\ Cardinality(RulesOf(1)) = 2 * (Len(calls[1].path) - 2)
    /\ exc = "none"

\* Two invocations of install_flow for the same flow and the same path have
\* ended, and both read the same tables: the registry is as it was at the
\* call of each (switches only leave it here, and nothing writes the other
\* tables).
InstalledTwice ==
    /\ Len(calls) = 2 /\ Ended(calls[1]) /\ Ended(calls[2])
    /\ calls[1].path = calls[2].path
    /\ calls[1].flow_info = calls[2].flow_info
    /\ calls[1].seen = datapaths /\ calls[2].seen = datapaths

(***************************************************************************)
(* C14: two install_flow invocations for the same flow and the same path   *)
(* that read the same tables, one after the other or with their steps      *)
(* interleaved, submit rules of identical content (switch, match, output   *)
(* port, priority, timeouts) in the same order, whatever buffer each is    *)
(* given; the distinct rules written to the switches by both together are  *)
(* the rules of one call of install_flow on these tables, each written     *)
(* twice.                                                                  *)
(***************************************************************************)
C14_SameRulesTwice ==
    InstalledTwice
        => /\ RuleSeq(1) = RuleSeq(2)
           /\ {m \in BagToSet(sent) : m.type = "OFPFlowMod"}
                 = {calls[1].msgs[i] : i \in RulesOf(1)}
           /\ \A i \in RulesOf(1) : CopiesIn(calls[1].msgs[i], sent) = 2
           /\ RuleSeq(1) =
                 SelectSeq(install_flow(datapaths, link_to_port, access_table,
                                        calls[1].path, calls[1].flow_info,
                                        calls[1].buffer_id, calls[1].data).msgs,
                           LAMBDA m : m.type = "OFPFlowMod")

\* The invocations ran interleaved: each wrote a message while the other
\* was between its first message and its end.
C14_Witness ==
    /\ InstalledTwice
    /\ calls[1].amid /\ calls[2].amid
    /\ calls[1].buffer_id # calls[2].buffer_id
    /\ Len(calls[1].path) > 2
    /\ Cardinality(RulesOf(1)) = 2 * Len(calls[1].path)
    /\ Cardinality(OutsOf(1)) + Cardinality(OutsOf(2)) = 2

(***************************************************************************)
(* C15: no packet-out is written to a switch when the buffer is            *)
(* OFP_NO_BUFFER and the payload is None: an install_flow call with such   *)
(* arguments sends no packet-out, an ARP reply or a flood for such a       *)
(* message sends nothing, and what is sent is always a message.            *)
(***************************************************************************)
C15_NoEmptyPacketOut ==
    /\ \A i \in 1..Len(sent) : sent[i].type # "None"
    /\ \A c \in Called :
          calls[c].buffer_id = OFP_NO_BUFFER /\ calls[c].data = NoData
              => OutsOf(c) = {}
    /\ Handled /\ "arp" \in ev[1].pkt.protocols /\ ev[1].msg.data = NoData
          => sent = <<>>

C15_Witness ==
    /\ pc = "done" /\ Len(calls) = 1 /\ Called = {1}
    /\ calls[1].buffer_id = OFP_NO_BUFFER /\ calls[1].data = NoData
    /\ Len(calls[1].path) >= 2
    /\ Cardinality(RulesOf(1)) = 2 * Len(calls[1].path)
    /\ OutsOf(1) = {}

(***************************************************************************)
(* C18, for the calls whose path ends at a switch on which the destination *)
(* address is recorded: the output port of the forward rule on the last    *)
(* switch of the path (the single switch of a path of 1) is a port p such  *)
(* that (that switch, p) is an access-table entry of the destination       *)
(* address, never a port recorded for the address on another switch.       *)
(***************************************************************************)
C18_AccessPortOnLastSwitch ==
    \A c \in Called :
        (\E e \in EntriesOf(DstOf(c)) : e[1] = LastOf(c))
            => \A i \in RulesOfOn(c, LastOf(c)) :
                   calls[c].msgs[i].match.ipv4_dst = DstOf(c)
                       => \E e \in EntriesOf(DstOf(c)) :
                              /\ e[1] = LastOf(c)
                              /\ calls[c].msgs[i].actions = <<e[2]>>

(***************************************************************************)
(* C19: an install_flow call sends at most one packet-out, and as its last *)
(* message: when it is sent, 2 rules (forward and reverse) have been       *)
(* submitted to the first switch, 2 to the last switch and 2 to every      *)
(* interior switch both of whose link entries are in link_to_port.         *)
(***************************************************************************)
C19_PacketOutLast ==
    \A c \in Called :
        LET path == calls[c].path
            PairOn(d) ==
                /\ Cardinality(RulesOfOn(c, d)) = 2
                /\ \E i, j \in RulesOfOn(c, d) :
                      calls[c].msgs[j] = Mirror(calls[c].msgs[i])
        IN  /\ Cardinality(OutsOf(c)) <= 1
            /\ \A k \in OutsOf(c) :
                  /\ k = Len(calls[c].msgs)
                  /\ PairOn(path[1])
                  /\ PairOn(LastOf(c))
                  /\ \A h \in 2..(Len(path) - 1) :
                        ~HopFails(path, h) => PairOn(path[h])

C19_Witness ==
    /\ pc = "done" /\ Len(calls) = 1 /\ Called = {1}
    /\ OutsOf(1) # {}
    /\ ~LinksResolve(calls[1].path)
    /\ RulesOf(1) # {}

\* An IPv4 packet-in that passes get_sw's test of the source attachment.
SourcePasses ==
    /\ Handled
    /\ "ipv4" \in ev[1].pkt.protocols /\ "ethernet" \in ev[1].pkt.protocols
    /\ ~Mismatch

PathErrors == {"AttributeError", "TypeError", "IndexError"}

(***************************************************************************)
(* C12 as stated: for an IPv4 packet that passes the source attachment     *)
(* check, installation is skipped (no rule, no packet-out, no exception)   *)
(* when the destination address has no access-table entry, and is          *)
(* attempted (the path from the ingress switch to the entry's switch is    *)
(* looked up, and install_flow called if there is one) when it has an      *)
(* entry, whatever the switch id of that entry.                            *)
(***************************************************************************)
C12_DstSwitchFromEntry ==
    SourcePasses =>
        /\ EntriesOf(ev[1].pkt.dst_ip) = {}
              => sent = <<>> /\ calls = <<>> /\ exc = "none"
        /\ \A e \in EntriesOf(ev[1].pkt.dst_ip) :
              \/ exc \in PathErrors
              \/ /\ calls # <<>>
                 /\ ThePath = get_path(shortest_paths, ev[1].msg.datapath.id, e[1])

\* The shortest-path table has no path from the ingress switch to the switch
\* of the destination's entry.
PathMissing ==
    /\ SourcePasses
    /\ \E e \in EntriesOf(ev[1].pkt.dst_ip) :
          /\ e[1] # 0
          /\ get_path_exc(shortest_paths, ev[1].msg.datapath.id, e[1]) # "none"

(***************************************************************************)
(* C13 as stated: when the shortest-path table has no entry for the        *)
(* resolved pair of switches, the failure of get_path is reported and not  *)
(* fatal: the handler of the packet-in does not fail, and it submits no    *)
(* rule and no packet-out.                                                 *)
(***************************************************************************)
C13_PathNotFoundNotFatal ==
    PathMissing => exc = "none" /\ sent = <<>> /\ calls = <<>>

====
